---- MODULE Spec2Model ----
(***************************************************************************)
(* UCLF: the per-tick simulation core (state registry, HDV behaviour       *)
(* predictor, CAV priority manager, collision detector, simulation engine).*)
(*                                                                         *)
(* Units.  The code computes with floats; the model uses exact integers:   *)
(*   time          0.1 s   (the engine's time_step is 1)                   *)
(*   position      0.05 m  (vehicle length 4.5 m = 90, safety margin = 100)*)
(*   velocity      1 m/s                                                   *)
(*   acceleration  10 m/s^2                                                *)
(* so that  position += velocity*dt + 0.5*acceleration*dt^2  becomes       *)
(*          position += 2*velocity*dt + acceleration*dt*dt   and           *)
(*          velocity += acceleration*dt  keeps its form.                   *)
(* A duration is counted in 0.01 s.                                        *)
(***************************************************************************)
EXTENDS Integers, Sequences, FiniteSets, TLC

VARIABLES
    num_lanes,          \* RoadConfig.num_lanes
    obstacles,          \* ScenarioInitializer.obstacles (a list, fixed for the run)
    vehicles,           \* VehicleStateManager.vehicles: the dict, as its items in insertion order
    current_time,       \* VehicleStateManager.current_time
    state_history,      \* StateHistory.history: vehicle id -> list of VehicleState
    prediction_history, \* HDVBehaviorPredictor.prediction_history
    priorities,         \* PriorityManager.priorities: the dict, as its items in insertion order
    priority_order,     \* PriorityManager.priority_order
    collision_history,  \* CollisionDetector.collision_history
    simulation_time,    \* SimulationEngine.simulation_time
    total_steps,        \* SimulationEngine.total_steps
    pc,                 \* the engine's position inside run_single_step
    run,                \* the run_simulation / run_single_step call in progress
    tick,               \* what the tick in progress has computed so far
    last_call,          \* the operation that acted last, with its arguments
    result,             \* what that operation returned or raised
    audit               \* bookkeeping of the run: steps since each registration, lists returned

vars == <<num_lanes, obstacles, vehicles, current_time, state_history,
          prediction_history, priorities, priority_order, collision_history,
          simulation_time, total_steps, pc, run, tick, last_call, result, audit>>

----------------------------------------------------------------------------
(* Bounds of the model *)

MaxVehicleId == 2       \* vehicle ids are 1..MaxVehicleId
MaxLanes == 2           \* the road has 1..MaxLanes lanes
MaxObstacles == 1       \* obstacles in the scenario
MaxSnapshots == 3       \* no state history grows beyond this many snapshots
MaxAdds == 2            \* add_vehicle is called at most this many times

(* Program constants *)

TIME_STEP == 1          \* SimulationEngine.time_step = 0.1 s
TIME_STEP_CS == 10      \* the same time step in 0.01 s, the unit of a duration
DEFAULT_LENGTH == 90    \* Vehicle.length = 4.5 m
SAFETY_MARGIN == 100    \* CollisionDetector.safety_margin = 5.0 m
CRITICAL_GAP == 40      \* "CRITICAL" if distance < 2.0
INF == 1000000          \* float('inf')

None == [none |-> TRUE]    \* Python's None

Max(a, b) == IF a >= b THEN a ELSE b
Min(a, b) == IF a <= b THEN a ELSE b
\* the value an expression is bound to, evaluated once
Only(S) == CHOOSE x \in S : TRUE

Abs(a) == IF a >= 0 THEN a ELSE -a

----------------------------------------------------------------------------
(* initialization_module: Vehicle, Obstacle, ScenarioInitializer *)

VehicleIds == 1..MaxVehicleId
UnknownId == MaxVehicleId + 1           \* an id that is never registered
Lanes == 1..num_lanes

DefaultProbabilities == [K |-> 7, L |-> 2, R |-> 1]    \* tenths: 0.7, 0.2, 0.1
BehaviorProbs == {DefaultProbabilities}

Positions == {0, 80}            \* 0 m, 4 m
Velocities == {2}               \* m/s
Accelerations == {-3, 1}        \* -30 m/s^2, 10 m/s^2

Vehicle(id, type, position, lane, velocity, acceleration, length, probs) ==
    [id |-> id, type |-> type, position |-> position, lane |-> lane,
     velocity |-> velocity, acceleration |-> acceleration, length |-> length,
     intended_action |-> "K",
     action_probabilities |-> probs]

add_cav(id, position, lane, velocity, acceleration) ==
    Vehicle(id, "CAV", position, lane, velocity, acceleration, DEFAULT_LENGTH,
            DefaultProbabilities)

add_hdv(id, position, lane, velocity, acceleration, behavior_probs) ==
    Vehicle(id, "HDV", position, lane, velocity, acceleration, DEFAULT_LENGTH, behavior_probs)

\* the vehicles a scenario can hold for one id
ScenarioVehicles(id) ==
    {add_cav(id, p, l, v, a) : p \in Positions, l \in Lanes, v \in Velocities, a \in Accelerations}
    \cup
    UNION {{add_hdv(id, p, l, v, a, b) : p \in Positions, l \in Lanes, v \in Velocities, a \in Accelerations}
           : b \in BehaviorProbs}

Obstacle(id, position, lane, type) ==
    [id |-> id, position |-> position, lane |-> lane, type |-> type]

ObstaclePositions == {150}      \* 7.5 m
ObstacleTypes == {"blockage", "lane_drop"}

RECURSIVE ObstacleLists(_, _)
ObstacleLists(n, lanes) ==
    IF n = 0 THEN {<<>>}
    ELSE LET shorter == ObstacleLists(n - 1, lanes)
         IN  shorter \cup
             {Append(os, Obstacle(Len(os) + 1, p, l, t)) :
                 os \in {x \in shorter : Len(x) = n - 1},
                 p \in ObstaclePositions, l \in lanes, t \in ObstacleTypes}

----------------------------------------------------------------------------
(* state_management_module: StateHistory, VehicleStateManager *)

\* dict helpers: a dict is the sequence of its items, in insertion order
Ids(vs) == {vs[i].id : i \in 1..Len(vs)}
IndexOf(vs, id) == CHOOSE i \in 1..Len(vs) : vs[i].id = id
Lookup(vs, id) == vs[IndexOf(vs, id)]
Put(vs, v) ==
    IF v.id \in Ids(vs) THEN [vs EXCEPT ![IndexOf(vs, v.id)] = v] ELSE Append(vs, v)

VehicleState(v, now) ==
    [timestamp |-> now, vehicle_id |-> v.id, vehicle_type |-> v.type,
     position |-> v.position, lane |-> v.lane, velocity |-> v.velocity,
     acceleration |-> v.acceleration, intended_action |-> v.intended_action]

add_state(history, vehicle_id, state) ==
    [history EXCEPT ![vehicle_id] = Append(@, state)]

_record_state(history, v, now) == add_state(history, v.id, VehicleState(v, now))

\* the update without the clamp of the velocity at 0
update_vehicle_position_unclamped(v, delta_time) ==
    [v EXCEPT !.position = @ + 2 * v.velocity * delta_time
                             + v.acceleration * delta_time * delta_time,
              !.velocity = v.velocity + v.acceleration * delta_time]

update_vehicle_position(v, delta_time) ==
    [v EXCEPT !.position = @ + 2 * v.velocity * delta_time
                             + v.acceleration * delta_time * delta_time,
              !.velocity = Max(0, v.velocity + v.acceleration * delta_time)]

\* the loop of step_simulation over the first n items of the dict
RECURSIVE StepLoop(_, _, _, _, _)
StepLoop(vs, history, now, delta_time, n) ==
    IF n = 0 THEN [vehicles |-> vs, history |-> history]
    ELSE LET before == StepLoop(vs, history, now, delta_time, n - 1)
             moved == update_vehicle_position(before.vehicles[n], delta_time)
         IN  [vehicles |-> [before.vehicles EXCEPT ![n] = moved],
              history |-> _record_state(before.history, moved, now)]

step_simulation(vs, history, now, delta_time) ==
    LET done == StepLoop(vs, history, now, delta_time, Len(vs))
    IN  [vehicles |-> done.vehicles, history |-> done.history,
         current_time |-> now + delta_time]

get_all_vehicles(vs) == vs
get_vehicles_by_type(vs, type) == SelectSeq(vs, LAMBDA v : v.type = type)
get_vehicles_in_lane(vs, lane) == SelectSeq(vs, LAMBDA v : v.lane = lane)

\* the scan of get_vehicle_ahead / get_vehicle_behind over the dict: the first item, in
\* iteration order, at the smallest distance (distance < min_distance is strict);
\* origin is the asking vehicle's position
Nearest(vs, candidates, origin) ==
    IF candidates = {} THEN [vehicle |-> None, distance |-> INF]
    ELSE LET best == CHOOSE i \in candidates :
                        \A j \in candidates :
                            \/ Abs(vs[i].position - origin) < Abs(vs[j].position - origin)
                            \/ /\ Abs(vs[i].position - origin) = Abs(vs[j].position - origin)
                               /\ i <= j
         IN  [vehicle |-> vs[best], distance |-> Abs(vs[best].position - origin)]

\* a vehicle at the same position counted as ahead
get_vehicle_ahead_or_level(vs, vehicle_id, same_lane_only) ==
    LET vehicle == Lookup(vs, vehicle_id)
        ahead == {i \in 1..Len(vs) :
                     /\ vs[i].id # vehicle_id
                     /\ ~(same_lane_only /\ vs[i].lane # vehicle.lane)
                     /\ vs[i].position >= vehicle.position}
    IN  Nearest(vs, ahead, vehicle.position)

get_vehicle_ahead(vs, vehicle_id, same_lane_only) ==
    LET vehicle == Lookup(vs, vehicle_id)
        ahead == {i \in 1..Len(vs) :
                     /\ vs[i].id # vehicle_id
                     /\ ~(same_lane_only /\ vs[i].lane # vehicle.lane)
                     /\ vs[i].position > vehicle.position}
    IN  Nearest(vs, ahead, vehicle.position)

get_vehicle_behind(vs, vehicle_id, same_lane_only) ==
    LET vehicle == Lookup(vs, vehicle_id)
        behind == {i \in 1..Len(vs) :
                      /\ vs[i].id # vehicle_id
                      /\ ~(same_lane_only /\ vs[i].lane # vehicle.lane)
                      /\ vs[i].position < vehicle.position}
    IN  Nearest(vs, behind, vehicle.position)

----------------------------------------------------------------------------
(* collision_detection_module: CollisionDetector *)

CollisionEvent(now, type, vehicle1_id, vehicle2_id, obstacle_id, distance, severity) ==
    [timestamp |-> now, collision_type |-> type, vehicle1_id |-> vehicle1_id,
     vehicle2_id |-> vehicle2_id, obstacle_id |-> obstacle_id,
     distance |-> distance, severity |-> severity]

\* the gap measured with the length of the vehicle behind
check_rear_end_collision_behind_length(vehicle1, vehicle2) ==
    IF vehicle1.lane # vehicle2.lane THEN [collision |-> FALSE, distance |-> INF]
    ELSE LET ahead == IF vehicle2.position > vehicle1.position THEN vehicle2 ELSE vehicle1
             behind == IF vehicle2.position > vehicle1.position THEN vehicle1 ELSE vehicle2
             distance == ahead.position - behind.position - behind.length
         IN  [collision |-> distance < SAFETY_MARGIN, distance |-> distance]

check_rear_end_collision(vehicle1, vehicle2) ==
    IF vehicle1.lane # vehicle2.lane THEN [collision |-> FALSE, distance |-> INF]
    ELSE LET ahead == IF vehicle2.position > vehicle1.position THEN vehicle2 ELSE vehicle1
             behind == IF vehicle2.position > vehicle1.position THEN vehicle1 ELSE vehicle2
             distance == ahead.position - behind.position - ahead.length
         IN  [collision |-> distance < SAFETY_MARGIN, distance |-> distance]

\* |p1 - p2| < (length1 + length2) / 2 + safety_margin, doubled to stay in integers;
\* the reported distance is the lane difference
check_side_collision(vehicle1, vehicle2) ==
    IF Abs(vehicle1.lane - vehicle2.lane) # 1 THEN [collision |-> FALSE, distance |-> INF]
    ELSE IF 2 * Abs(vehicle1.position - vehicle2.position)
                < vehicle1.length + vehicle2.length + 2 * SAFETY_MARGIN
         THEN [collision |-> TRUE, distance |-> Abs(vehicle1.lane - vehicle2.lane)]
         ELSE [collision |-> FALSE, distance |-> INF]

\* returns at the first obstacle of the list that qualifies
check_obstacle_collision(vehicle, obs) ==
    LET hits == {k \in 1..Len(obs) :
                    /\ obs[k].lane = vehicle.lane
                    /\ 0 < obs[k].position - vehicle.position
                    /\ obs[k].position - vehicle.position < SAFETY_MARGIN}
    IN  IF hits = {} THEN [collision |-> FALSE, obstacle_id |-> None, distance |-> INF]
        ELSE LET k == CHOOSE h \in hits : \A g \in hits : h <= g
             IN  [collision |-> TRUE, obstacle_id |-> obs[k].id,
                  distance |-> obs[k].position - vehicle.position]

Severity(distance) == IF distance < CRITICAL_GAP THEN "CRITICAL" ELSE "WARNING"

\* the events of one pair (v1, v2): rear-end first, then side
PairEvents(v1, v2, now) ==
    LET rear == check_rear_end_collision(v1, v2)
        side == check_side_collision(v1, v2)
    IN  (IF rear.collision
         THEN <<CollisionEvent(now, "REAR_END", v1.id, v2.id, None,
                               rear.distance, Severity(rear.distance))>>
         ELSE <<>>)
        \o
        (IF side.collision
         THEN <<CollisionEvent(now, "SIDE_COLLISION", v1.id, v2.id, None,
                               side.distance, "WARNING")>>
         ELSE <<>>)

\* for i, v1 in enumerate(vehicles): for v2 in vehicles[i+1:], pairs (i, j) with j from k on
RECURSIVE VehicleEvents(_, _, _, _)
VehicleEvents(vs, now, i, j) ==
    IF i > Len(vs) THEN <<>>
    ELSE IF j > Len(vs) THEN VehicleEvents(vs, now, i + 1, i + 2)
    ELSE PairEvents(vs[i], vs[j], now) \o VehicleEvents(vs, now, i, j + 1)

RECURSIVE ObstacleEvents(_, _, _, _)
ObstacleEvents(vs, obs, now, i) ==
    IF i > Len(vs) THEN <<>>
    ELSE LET hit == check_obstacle_collision(vs[i], obs)
         IN  (IF hit.collision
              THEN <<CollisionEvent(now, "OBSTACLE_COLLISION", vs[i].id, None,
                                    hit.obstacle_id, hit.distance, Severity(hit.distance))>>
              ELSE <<>>)
             \o ObstacleEvents(vs, obs, now, i + 1)

\* current_collisions, as check_all_collisions builds it
CurrentCollisions(vs, obs, now) ==
    VehicleEvents(get_all_vehicles(vs), now, 1, 2)
    \o (IF Len(obs) > 0 THEN ObstacleEvents(get_all_vehicles(vs), obs, now, 1) ELSE <<>>)

\* the log assigned the current events instead of extended by them
check_all_collisions_overwriting(history, vs, obs, now) ==
    LET current_collisions == CurrentCollisions(vs, obs, now)
    IN  [collision_history |-> current_collisions, returned |-> current_collisions]

\* self.collision_history.extend(current_collisions); return current_collisions
check_all_collisions(history, vs, obs, now) ==
    LET current_collisions == CurrentCollisions(vs, obs, now)
    IN  [collision_history |-> history \o current_collisions,
         returned |-> current_collisions]

get_collision_count(history) == Len(history)

\* the lane change refused at a distance of exactly 3 * safety_margin as well
is_lane_change_safe_inclusive(vs, vehicle_id, target_lane) ==
    LET others == {i \in 1..Len(vs) : vs[i].lane = target_lane /\ vs[i].id # vehicle_id}
    IN  IF vehicle_id \notin Ids(vs)
        THEN IF others = {} THEN [status |-> "ok", value |-> TRUE]
             ELSE [status |-> "AttributeError", value |-> None]
        ELSE LET vehicle == Lookup(vs, vehicle_id)
             IN  [status |-> "ok",
                  value |-> \A i \in others :
                               ~(Abs(vs[i].position - vehicle.position) <= 3 * SAFETY_MARGIN)]

\* vehicle is what get_vehicle returned: None for an id that is not registered, and then
\* vehicle.position raises AttributeError as soon as the target lane holds another vehicle
is_lane_change_safe(vs, vehicle_id, target_lane) ==
    LET others == {i \in 1..Len(vs) : vs[i].lane = target_lane /\ vs[i].id # vehicle_id}
    IN  IF vehicle_id \notin Ids(vs)
        THEN IF others = {} THEN [status |-> "ok", value |-> TRUE]
             ELSE [status |-> "AttributeError", value |-> None]
        ELSE LET vehicle == Lookup(vs, vehicle_id)
             IN  [status |-> "ok",
                  value |-> \A i \in others :
                               ~(Abs(vs[i].position - vehicle.position) < 3 * SAFETY_MARGIN)]

----------------------------------------------------------------------------
(* hdv_behaviour_module: HDVBehaviorPredictor *)

AHEAD_RANGE == 600          \* distance_ahead < 30.0
SPEED_MARGIN == 5           \* ahead_vehicle.velocity + 5.0
OBSTACLE_RANGE == 1000      \* distance_to_obs < 50.0

Actions == <<"K", "L", "R">>    \* the dict's key order: KEEP_LANE, CHANGE_LEFT, CHANGE_RIGHT

RECURSIVE Pow(_, _)
Pow(b, n) == IF n = 0 THEN 1 ELSE b * Pow(b, n - 1)

\* factors 1, 2 and 4 without the lane constraints of factor 3
AdjustedWeightsWithoutLaneConstraints(vs, vehicle, obs, lanes) ==
    LET base == vehicle.action_probabilities
        ahead == get_vehicle_ahead(vs, vehicle.id, TRUE)
        close == ahead.vehicle # None /\ ahead.distance < AHEAD_RANGE
        slower == ahead.vehicle # None
                    /\ vehicle.velocity > ahead.vehicle.velocity + SPEED_MARGIN
        f1 == IF close THEN [K |-> 7, L |-> 13, R |-> 13] ELSE [K |-> 10, L |-> 10, R |-> 10]
        f2 == IF slower THEN [K |-> 6, L |-> 15, R |-> 15] ELSE [K |-> 10, L |-> 10, R |-> 10]
        near == Cardinality({k \in 1..Len(obs) :
                                /\ obs[k].lane = vehicle.lane
                                /\ 0 < obs[k].position - vehicle.position
                                /\ obs[k].position - vehicle.position < OBSTACLE_RANGE})
    IN  [K |-> base.K * f1.K * f2.K * Pow(2, near),
         L |-> base.L * f1.L * f2.L
                 * (IF vehicle.lane > 1 THEN Pow(20, near) ELSE Pow(10, near)),
         R |-> base.R * f1.R * f2.R
                 * (IF vehicle.lane < lanes THEN Pow(20, near) ELSE Pow(10, near))]

\* The weights of base_probs after factors 1-4.  Every factor is a multiple of 0.1, so each
\* one multiplies the three weights by ten times its value: the common scale cancels in
\* the normalisation.
AdjustedWeights(vs, vehicle, obs, lanes) ==
    LET base == vehicle.action_probabilities
        ahead == get_vehicle_ahead(vs, vehicle.id, TRUE)
        close == ahead.vehicle # None /\ ahead.distance < AHEAD_RANGE
        slower == ahead.vehicle # None
                    /\ vehicle.velocity > ahead.vehicle.velocity + SPEED_MARGIN
        f1 == IF close THEN [K |-> 7, L |-> 13, R |-> 13] ELSE [K |-> 10, L |-> 10, R |-> 10]
        f2 == IF slower THEN [K |-> 6, L |-> 15, R |-> 15] ELSE [K |-> 10, L |-> 10, R |-> 10]
        near == Cardinality({k \in 1..Len(obs) :
                                /\ obs[k].lane = vehicle.lane
                                /\ 0 < obs[k].position - vehicle.position
                                /\ obs[k].position - vehicle.position < OBSTACLE_RANGE})
        left == IF vehicle.lane = 1 THEN 0 ELSE base.L * f1.L * f2.L
        right == IF vehicle.lane = lanes THEN 0 ELSE base.R * f1.R * f2.R
    IN  [K |-> base.K * f1.K * f2.K * Pow(2, near),
         L |-> left * (IF vehicle.lane > 1 THEN Pow(20, near) ELSE Pow(10, near)),
         R |-> right * (IF vehicle.lane < lanes THEN Pow(20, near) ELSE Pow(10, near))]

\* a total of 0 replaced by the uniform distribution
NormalizeUniformFallback(w) ==
    LET total == w.K + w.L + w.R
    IN  IF total > 0 THEN [K |-> w.K, L |-> w.L, R |-> w.R, den |-> total]
        ELSE [K |-> 1, L |-> 1, R |-> 1, den |-> 3]

\* the normalisation without the branch for a total of 0
NormalizeWithoutFallback(w) ==
    [K |-> w.K, L |-> w.L, R |-> w.R, den |-> w.K + w.L + w.R]

\* a distribution is the three numerators over the common denominator den
Normalize(w) ==
    LET total == w.K + w.L + w.R
    IN  IF total > 0 THEN [K |-> w.K, L |-> w.L, R |-> w.R, den |-> total]
        ELSE [K |-> 1, L |-> 0, R |-> 0, den |-> 1]

\* base_probs bound to the vehicle's own dict (no copy): the factors are applied to it
BaseAfterEstimateAliased(vehicle, weights) == weights

\* what the vehicle's own action_probabilities hold after the call: base_probs is a copy
BaseAfterEstimate(vehicle, weights) == vehicle.action_probabilities

estimate_lane_change_probability(vs, vehicle, obs, lanes) ==
    LET weights == AdjustedWeights(vs, vehicle, obs, lanes)
    IN  [probs |-> Normalize(weights),
         vehicle_probs |-> BaseAfterEstimate(vehicle, weights)]

\* max(probs, key=probs.get): the first key, in dict order, with the largest probability
ArgMax(probs) ==
    LET best == CHOOSE i \in 1..3 :
                    \A j \in 1..3 : \/ probs[Actions[i]] > probs[Actions[j]]
                                    \/ (probs[Actions[i]] = probs[Actions[j]] /\ i <= j)
    IN  Actions[best]

BehaviorPrediction(vehicle_id, probs, now) ==
    [vehicle_id |-> vehicle_id, predicted_action |-> ArgMax(probs),
     confidence |-> <<probs[ArgMax(probs)], probs.den>>,
     all_probabilities |-> probs, timestamp |-> now]

\* get_vehicle is dict.get: None for an id that is not registered
get_vehicle(vs, vehicle_id) ==
    IF vehicle_id \in Ids(vs) THEN Lookup(vs, vehicle_id) ELSE None

SetProbs(vs, vehicle_id, probs) ==
    [vs EXCEPT ![IndexOf(vs, vehicle_id)].action_probabilities = probs]

\* the prediction made for a vehicle of any type
predict_hdv_action_any_type(vs, predictions, vehicle_id, obs, lanes, now) ==
    LET vehicle == get_vehicle(vs, vehicle_id)
    IN  IF vehicle = None
        THEN [status |-> "AttributeError", value |-> None,
              vehicles |-> vs, prediction_history |-> predictions]
        ELSE LET est == estimate_lane_change_probability(vs, vehicle, obs, lanes)
                 prediction == BehaviorPrediction(vehicle_id, est.probs, now)
             IN  [status |-> "ok", value |-> prediction,
                  vehicles |-> SetProbs(vs, vehicle_id, est.vehicle_probs),
                  prediction_history |->
                      [predictions EXCEPT ![vehicle_id] = Append(@, prediction)]]

predict_hdv_action(vs, predictions, vehicle_id, obs, lanes, now) ==
    LET vehicle == get_vehicle(vs, vehicle_id)
    IN  IF vehicle = None
        THEN [status |-> "AttributeError", value |-> None,
              vehicles |-> vs, prediction_history |-> predictions]
        ELSE IF vehicle.type # "HDV"
        THEN [status |-> "ValueError", value |-> None,
              vehicles |-> vs, prediction_history |-> predictions]
        ELSE LET est == estimate_lane_change_probability(vs, vehicle, obs, lanes)
                 prediction == BehaviorPrediction(vehicle_id, est.probs, now)
             IN  [status |-> "ok", value |-> prediction,
                  vehicles |-> SetProbs(vs, vehicle_id, est.vehicle_probs),
                  prediction_history |->
                      [predictions EXCEPT ![vehicle_id] = Append(@, prediction)]]

\* random.choices(actions, weights=probabilities, k=1): any action of positive weight
sample_hdv_behavior(vs, vehicle_id, obs, lanes) ==
    LET vehicle == get_vehicle(vs, vehicle_id)
    IN  IF vehicle = None
        THEN [status |-> "AttributeError", samples |-> {}, vehicles |-> vs]
        ELSE IF vehicle.type # "HDV"
        THEN [status |-> "ValueError", samples |-> {}, vehicles |-> vs]
        ELSE LET est == estimate_lane_change_probability(vs, vehicle, obs, lanes)
             IN  [status |-> "ok",
                  samples |-> {Actions[i] : i \in {j \in 1..3 : est.probs[Actions[j]] > 0}},
                  vehicles |-> SetProbs(vs, vehicle_id, est.vehicle_probs)]

\* the loop of predict_all_hdvs over hdvs[1..n]; predictions is the returned dict
RECURSIVE PredictLoop(_, _, _, _, _, _, _)
PredictLoop(hdvs, vs, predictions, obs, lanes, now, n) ==
    IF n = 0 THEN [vehicles |-> vs, prediction_history |-> predictions, returned |-> <<>>]
    ELSE Only({Only({[vehicles |-> one.vehicles,
                      prediction_history |-> one.prediction_history,
                      returned |-> Append(before.returned, one.value)]
                     : one \in {predict_hdv_action(before.vehicles,
                                                   before.prediction_history,
                                                   hdvs[n].id, obs, lanes, now)}})
               : before \in {PredictLoop(hdvs, vs, predictions, obs, lanes, now, n - 1)}})

predict_all_hdvs(vs, predictions, obs, lanes, now) ==
    LET hdvs == get_vehicles_by_type(vs, "HDV")
    IN  PredictLoop(hdvs, vs, predictions, obs, lanes, now, Len(hdvs))

----------------------------------------------------------------------------
(* priority_manager_module: PriorityManager *)

\* Scores are exact fractions <<numerator, denominator>> in lowest terms.  A distance d
\* (0.05 m) is d/20 metres, so 100 / (metres + 1) = 2000 / (d + 20).
RECURSIVE Gcd(_, _)
Gcd(a, b) == IF b = 0 THEN a ELSE Gcd(b, a % b)

Frac(n, d) == LET g == Gcd(n, d) IN <<n \div g, d \div g>>
FracAdd(x, y) == Frac(x[1] * y[2] + y[1] * x[2], x[2] * y[2])
FracLess(x, y) == x[1] * y[2] < y[1] * x[2]
FracGeq(x, k) == x[1] >= k * x[2]       \* x >= k, k an integer
FracGt(x, k) == x[1] > k * x[2]         \* x > k

METRE == 20                 \* one metre, in position units
OBSTACLE_HORIZON == 2000    \* min_obstacle_distance < 100
LANE_DROP_HORIZON == 4000   \* distance < 200
PROXIMITY_HORIZON == 400    \* distance_ahead < 20.0
OBSTACLE_WEIGHT == 100      \* 100.0 / (min_obstacle_distance + 1)
LANE_DROP_WEIGHT == 50      \* 50.0 / (distance + 1)
PROXIMITY_WEIGHT == 10      \* 10.0 / (distance_ahead + 1)

Term(weight, distance) == Frac(weight * METRE, distance + METRE)

\* the smallest positive distance to a same-lane obstacle, INF when there is none
MinObstacleDistance(vehicle, obs) ==
    LET ahead == {obs[k].position - vehicle.position : k \in
                     {j \in 1..Len(obs) : /\ obs[j].lane = vehicle.lane
                                          /\ obs[j].position - vehicle.position > 0}}
    IN  IF ahead = {} THEN INF ELSE CHOOSE d \in ahead : \A e \in ahead : d <= e

\* the lane-drop loop over obs[1..n]: every qualifying obstacle adds its own term
RECURSIVE LaneDropLoop(_, _, _)
LaneDropLoop(vehicle, obs, n) ==
    IF n = 0 THEN [score |-> <<0, 1>>, reasons |-> <<>>]
    ELSE LET before == LaneDropLoop(vehicle, obs, n - 1)
             distance == obs[n].position - vehicle.position
         IN  IF /\ obs[n].type = "lane_drop"
                /\ obs[n].lane = vehicle.lane
                /\ distance > 0
                /\ distance < LANE_DROP_HORIZON
             THEN [score |-> FracAdd(before.score, Term(LANE_DROP_WEIGHT, distance)),
                   reasons |-> Append(before.reasons,
                                      [fragment |-> "Lane ending", distance |-> distance])]
             ELSE before

calculate_urgency_score(vs, vehicle, obs) ==
    IF vehicle.type # "CAV" THEN [score |-> <<0, 1>>, reasons |-> <<"Not a CAV">>]
    ELSE LET min_obstacle_distance == MinObstacleDistance(vehicle, obs)
             obstacle == min_obstacle_distance < INF
                            /\ min_obstacle_distance < OBSTACLE_HORIZON
             drops == LaneDropLoop(vehicle, obs, Len(obs))
             ahead == get_vehicle_ahead(vs, vehicle.id, TRUE)
             proximity == ahead.vehicle # None /\ ahead.distance < PROXIMITY_HORIZON
             s1 == IF obstacle THEN Term(OBSTACLE_WEIGHT, min_obstacle_distance) ELSE <<0, 1>>
             s2 == FracAdd(s1, drops.score)
             s3 == IF proximity THEN FracAdd(s2, Term(PROXIMITY_WEIGHT, ahead.distance)) ELSE s2
         IN  [score |-> s3,
              reasons |->
                 (IF obstacle
                  THEN <<[fragment |-> "Obstacle ahead", distance |-> min_obstacle_distance]>>
                  ELSE <<>>)
                 \o drops.reasons
                 \o (IF proximity
                     THEN <<[fragment |-> "Vehicle ahead", distance |-> ahead.distance]>>
                     ELSE <<>>)]

\* the thresholds compared strictly
classify_urgency_level_strict(urgency_score) ==
    IF FracGt(urgency_score, 50) THEN "CRITICAL"
    ELSE IF FracGt(urgency_score, 20) THEN "HIGH"
    ELSE IF FracGt(urgency_score, 10) THEN "MEDIUM"
    ELSE IF FracGt(urgency_score, 5) THEN "LOW"
    ELSE "NONE"

classify_urgency_level(urgency_score) ==
    IF FracGeq(urgency_score, 50) THEN "CRITICAL"
    ELSE IF FracGeq(urgency_score, 20) THEN "HIGH"
    ELSE IF FracGeq(urgency_score, 10) THEN "MEDIUM"
    ELSE IF FracGeq(urgency_score, 5) THEN "LOW"
    ELSE "NONE"

CAVPriority(vs, cav, obs) ==
    LET urgency == calculate_urgency_score(vs, cav, obs)
    IN  [vehicle_id |-> cav.id,
         urgency_level |-> classify_urgency_level(urgency.score),
         urgency_score |-> urgency.score,
         reason |-> IF urgency.reasons = <<>> THEN <<"No urgency">> ELSE urgency.reasons,
         distance_to_obstacle |-> MinObstacleDistance(cav, obs),
         requires_lane_change |-> FracGt(urgency.score, 5)]

PriorityOf(ps, vehicle_id) == ps[CHOOSE i \in 1..Len(ps) : ps[i].vehicle_id = vehicle_id]

\* a sort that is not stable: an id moves ahead of equal scores as well
RECURSIVE InsertByScoreAheadOfEqual(_, _, _)
InsertByScoreAheadOfEqual(ps, sorted, p) ==
    IF sorted = <<>> THEN <<p.vehicle_id>>
    ELSE LET last == PriorityOf(ps, sorted[Len(sorted)])
         IN  IF ~FracLess(p.urgency_score, last.urgency_score)
             THEN Append(InsertByScoreAheadOfEqual(ps, SubSeq(sorted, 1, Len(sorted) - 1), p),
                         sorted[Len(sorted)])
             ELSE Append(sorted, p.vehicle_id)

\* sorted(keys, key=score, reverse=True) is stable: an id moves ahead only of strictly
\* smaller scores
RECURSIVE InsertByScore(_, _, _)
InsertByScore(ps, sorted, p) ==
    IF sorted = <<>> THEN <<p.vehicle_id>>
    ELSE LET last == PriorityOf(ps, sorted[Len(sorted)])
         IN  IF FracLess(last.urgency_score, p.urgency_score)
             THEN Append(InsertByScore(ps, SubSeq(sorted, 1, Len(sorted) - 1), p),
                         sorted[Len(sorted)])
             ELSE Append(sorted, p.vehicle_id)

RECURSIVE SortByScore(_, _)
SortByScore(ps, n) ==
    IF n = 0 THEN <<>> ELSE InsertByScore(ps, SortByScore(ps, n - 1), ps[n])

\* self.priorities.clear(), one CAVPriority per CAV in dict order, then the sort
calculate_all_priorities(vs, obs) ==
    LET cavs == get_vehicles_by_type(vs, "CAV")
        ps == [i \in 1..Len(cavs) |-> CAVPriority(vs, cavs[i], obs)]
    IN  [priorities |-> ps, priority_order |-> SortByScore(ps, Len(ps))]

get_priority_order(order) == order

----------------------------------------------------------------------------
(* simulation_engine_module: SimulationEngine *)

\* int(duration / self.time_step) in floating point: the quotient of an exact multiple of
\* the time step can fall just below the integer (0.3 / 0.1 = 2.9999999999999996), and int
\* truncates it.  FloatShort lists the durations up to 1.3 s where that happens.
FloatShort == {30, 60, 70, 120}
NumSteps(duration) ==
    IF duration \in FloatShort THEN duration \div TIME_STEP_CS - 1
    ELSE duration \div TIME_STEP_CS

\* the integration moved ahead of the collision check
TickOrderIntegratingEarly == <<"predict", "priority", "integrate", "collision">>

\* the order of the calls in run_single_step
TickOrder == <<"predict", "priority", "collision", "integrate">>

PhaseAfter(phase) ==
    LET i == CHOOSE k \in 1..Len(TickOrder) : TickOrder[k] = phase
    IN  IF i < Len(TickOrder) THEN TickOrder[i + 1] ELSE "return"

add_vehicle(vs, history, v, now) ==
    [vehicles |-> Put(vs, v), state_history |-> _record_state(history, v, now)]

----------------------------------------------------------------------------
(* The state machine *)

Durations == {5, 25, 30}     \* run_simulation(duration), in 0.01 s
DeltaTimes == {2}               \* step_simulation(delta_time), in 0.1 s

NoCall == [op |-> "init", id |-> 0, arg |-> 0]
Call(op, id, arg) == [op |-> op, id |-> id, arg |-> arg]
Ok(value) == [status |-> "ok", value |-> value]
NoRun == [kind |-> "none", duration |-> 0, start_steps |-> 0, remaining |-> 0]
NoTick == [start |-> None, phases |-> <<>>, hdv_predictions |-> <<>>, collisions |-> <<>>]

\* the add_vehicle calls made so far
RECURSIVE SumUpTo(_, _)
SumUpTo(f, n) == IF n = 0 THEN 0 ELSE f[n] + SumUpTo(f, n - 1)
Adds == SumUpTo(audit.registrations, MaxVehicleId)

Longest(history) ==
    LET lens == {Len(history[id]) : id \in DOMAIN history}
    IN  CHOOSE n \in lens : \A m \in lens : n >= m

Init ==
    /\ num_lanes \in 1..MaxLanes
    /\ obstacles \in ObstacleLists(MaxObstacles, 1..num_lanes)
    /\ vehicles = <<>>
    /\ current_time = 0
    /\ state_history = [id \in VehicleIds |-> <<>>]
    /\ prediction_history = [id \in VehicleIds |-> <<>>]
    /\ priorities = <<>>
    /\ priority_order = <<>>
    /\ collision_history = <<>>
    /\ simulation_time = 0
    /\ total_steps = 0
    /\ pc = "idle"
    /\ run = NoRun
    /\ tick = NoTick
    /\ last_call = NoCall
    /\ result = Ok(None)
    /\ audit = [steps_since_add |-> [id \in VehicleIds |-> 0], returned_log |-> <<>>,
                registrations |-> [id \in VehicleIds |-> 0], appends |-> 0]

\* state_manager.add_vehicle(vehicle)
AddVehicle(v) ==
    /\ pc = "idle"
    /\ Len(state_history[v.id]) < MaxSnapshots
    /\ Adds < MaxAdds
    /\ audit' = [audit EXCEPT !.registrations[v.id] = @ + 1]
    /\ \E done \in {add_vehicle(vehicles, state_history, v, current_time)} :
           /\ vehicles' = done.vehicles
           /\ state_history' = done.state_history
    /\ last_call' = Call("add_vehicle", v.id, 0)
    /\ result' = Ok(None)
    /\ run' = NoRun
    /\ UNCHANGED <<num_lanes, obstacles, current_time, prediction_history, priorities,
                   priority_order, collision_history, simulation_time, total_steps, pc,
                   tick>>

\* state_manager.step_simulation(delta_time)
StepSimulation(delta_time) ==
    /\ pc = "idle"
    /\ vehicles # <<>>
    /\ Longest(state_history) < MaxSnapshots
    /\ \E done \in {step_simulation(vehicles, state_history, current_time, delta_time)} :
           /\ vehicles' = done.vehicles
           /\ state_history' = done.history
           /\ current_time' = done.current_time
    /\ last_call' = Call("step_simulation", 0, delta_time)
    /\ result' = Ok(None)
    /\ run' = NoRun
    /\ audit' = [audit EXCEPT !.steps_since_add =
                    [id \in VehicleIds |-> IF id \in Ids(vehicles) THEN @[id] + 1 ELSE @[id]]]
    /\ UNCHANGED <<num_lanes, obstacles, prediction_history, priorities, priority_order,
                   collision_history, simulation_time, total_steps, pc, tick>>

\* engine.run_simulation(duration): num_steps, then the loop (or its end when num_steps = 0)
RunSimulation(duration) ==
    /\ pc = "idle"
    /\ vehicles # <<>>
    /\ Longest(state_history) + NumSteps(duration) <= MaxSnapshots
    /\ LET num_steps == NumSteps(duration)
       IN  /\ run' = [kind |-> "simulation", duration |-> duration,
                      start_steps |-> total_steps, remaining |-> num_steps]
           /\ pc' = IF num_steps > 0 THEN TickOrder[1] ELSE "idle"
           /\ last_call' = Call(IF num_steps > 0 THEN "run_simulation" ELSE "run_complete",
                                0, duration)
    /\ tick' = [NoTick EXCEPT !.start = [vehicles |-> vehicles, current_time |-> current_time]]
    /\ result' = Ok(None)
    /\ UNCHANGED <<num_lanes, obstacles, vehicles, current_time, state_history,
                   prediction_history, priorities, priority_order, collision_history,
                   simulation_time, total_steps, audit>>

\* 1. hdv_predictions = self.hdv_predictor.predict_all_hdvs(self.scenario.obstacles)
TickPredict ==
    /\ pc = "predict"
    /\ \E done \in {predict_all_hdvs(vehicles, prediction_history, obstacles, num_lanes,
                               current_time)} :
           /\ vehicles' = done.vehicles
           /\ prediction_history' = done.prediction_history
           /\ tick' = [tick EXCEPT !.hdv_predictions = done.returned,
                                   !.phases = Append(@, "predict")]
    /\ pc' = PhaseAfter("predict")
    /\ last_call' = Call("predict_all_hdvs", 0, 0)
    /\ UNCHANGED <<num_lanes, obstacles, current_time, state_history, priorities,
                   priority_order, collision_history, simulation_time, total_steps, run,
                   result, audit>>

\* 2. self.priority_manager.calculate_all_priorities(self.scenario.obstacles)
TickPriority ==
    /\ pc = "priority"
    /\ \E done \in {calculate_all_priorities(vehicles, obstacles)} :
           /\ priorities' = done.priorities
           /\ priority_order' = done.priority_order
    /\ tick' = [tick EXCEPT !.phases = Append(@, "priority")]
    /\ pc' = PhaseAfter("priority")
    /\ last_call' = Call("calculate_all_priorities", 0, 0)
    /\ UNCHANGED <<num_lanes, obstacles, vehicles, current_time, state_history,
                   prediction_history, collision_history, simulation_time, total_steps,
                   run, result, audit>>

\* 3. collisions = self.collision_detector.check_all_collisions(self.scenario.obstacles)
TickCollision ==
    /\ pc = "collision"
    /\ \E done \in {check_all_collisions(collision_history, vehicles, obstacles, current_time)} :
           /\ collision_history' = done.collision_history
           /\ tick' = [tick EXCEPT !.collisions = done.returned,
                                   !.phases = Append(@, "collision")]
           /\ audit' = [audit EXCEPT !.returned_log = @ \o done.returned]
    /\ pc' = PhaseAfter("collision")
    /\ last_call' = Call("check_all_collisions", 0, 0)
    /\ UNCHANGED <<num_lanes, obstacles, vehicles, current_time, state_history,
                   prediction_history, priorities, priority_order, simulation_time,
                   total_steps, run, result>>

\* 4. self.state_manager.step_simulation(self.time_step)
TickIntegrate ==
    /\ pc = "integrate"
    /\ \E done \in {step_simulation(vehicles, state_history, current_time, TIME_STEP)} :
           /\ vehicles' = done.vehicles
           /\ state_history' = done.history
           /\ current_time' = done.current_time
    /\ tick' = [tick EXCEPT !.phases = Append(@, "integrate")]
    /\ audit' = [audit EXCEPT !.steps_since_add =
                    [id \in VehicleIds |-> IF id \in Ids(vehicles) THEN @[id] + 1 ELSE @[id]]]
    /\ pc' = PhaseAfter("integrate")
    /\ last_call' = Call("step_simulation", 0, TIME_STEP)
    /\ UNCHANGED <<num_lanes, obstacles, prediction_history, priorities, priority_order,
                   collision_history, simulation_time, total_steps, run, result>>

\* the end of run_single_step: the counters, the returned dict, and the caller's loop
TickReturn ==
    /\ pc = "return"
    /\ simulation_time' = simulation_time + TIME_STEP
    /\ total_steps' = total_steps + 1
    /\ result' = Ok([time |-> simulation_time + TIME_STEP,
                     hdv_predictions |-> tick.hdv_predictions,
                     priorities |-> get_priority_order(priority_order),
                     collisions |-> tick.collisions])
    /\ run' = [run EXCEPT !.remaining = @ - 1]
    /\ pc' = IF run.remaining > 1 THEN TickOrder[1] ELSE "idle"
    /\ last_call' = Call(IF run.remaining > 1 THEN "run_single_step" ELSE "run_complete",
                         0, run.duration)
    /\ tick' = IF run.remaining > 1
               THEN [tick EXCEPT !.start = [vehicles |-> vehicles,
                                            current_time |-> current_time],
                                 !.phases = <<>>]
               ELSE tick
    /\ UNCHANGED <<num_lanes, obstacles, vehicles, current_time, state_history,
                   prediction_history, priorities, priority_order, collision_history,
                   audit>>

Next ==
    \/ \E id \in VehicleIds : \E v \in ScenarioVehicles(id) : AddVehicle(v)
    \/ \E delta_time \in DeltaTimes : StepSimulation(delta_time)
    \/ \E duration \in Durations : RunSimulation(duration)
    \/ TickPredict
    \/ TickPriority
    \/ TickCollision
    \/ TickIntegrate
    \/ TickReturn

Spec == Init /\ [][Next]_vars

----------------------------------------------------------------------------
(* The queries and the components called on their own, on an engine just constructed *)

MaxCalls == 1               \* calls that append to a history or a log, per behaviour

\* the vehicles an engine is constructed with, for one id
QueryVehicles(id) ==
    {Vehicle(id, t, p, l, v, 0, DEFAULT_LENGTH, DefaultProbabilities) :
        t \in {"CAV", "HDV"}, p \in Positions, l \in Lanes, v \in Velocities}

\* scenario.vehicles: lists of at most n vehicles with distinct ids, pool[id] the choices
RECURSIVE ScenarioLists(_, _)
ScenarioLists(n, pool) ==
    IF n = 0 THEN {<<>>}
    ELSE LET shorter == ScenarioLists(n - 1, pool)
         IN  shorter \cup
             UNION {UNION {{Append(vs, v) : v \in pool[id]} : id \in VehicleIds \ Ids(vs)}
                    : vs \in {x \in shorter : Len(x) = n - 1}}

\* add_vehicles(scenario.vehicles), at the clock's start
RECURSIVE add_vehicles(_, _, _, _)
add_vehicles(vs, history, list, now) ==
    IF list = <<>> THEN [vehicles |-> vs, state_history |-> history]
    ELSE LET done == add_vehicle(vs, history, Head(list), now)
         IN  add_vehicles(done.vehicles, done.state_history, Tail(list), now)

\* SimulationEngine.__init__(scenario), scenario.vehicles being list
Constructed(list) ==
    /\ \E done \in {add_vehicles(<<>>, [id \in VehicleIds |-> <<>>], list, 0)} :
           /\ vehicles = done.vehicles
           /\ state_history = done.state_history
    /\ audit = [steps_since_add |-> [id \in VehicleIds |-> 0], returned_log |-> <<>>,
                registrations |-> [id \in VehicleIds |-> IF id \in Ids(list) THEN 1 ELSE 0],
                appends |-> 0]
    /\ current_time = 0
    /\ prediction_history = [id \in VehicleIds |-> <<>>]
    /\ priorities = <<>>
    /\ priority_order = <<>>
    /\ collision_history = <<>>
    /\ simulation_time = 0
    /\ total_steps = 0
    /\ pc = "idle"
    /\ run = NoRun
    /\ tick = NoTick
    /\ last_call = NoCall
    /\ result = Ok(None)

InitQuery ==
    /\ num_lanes \in 1..MaxLanes
    /\ obstacles \in ObstacleLists(MaxObstacles, 1..num_lanes)
    /\ \E list \in ScenarioLists(MaxVehicleId, [id \in VehicleIds |-> QueryVehicles(id)]) :
          Constructed(list)

\* the calls made so far that appended to the prediction history or the collision log
Appended == audit.appends

\* a call that returns or raises and changes nothing else
Answer(call, answer) ==
    /\ last_call' = call
    /\ result' = answer
    /\ UNCHANGED <<num_lanes, obstacles, vehicles, current_time, state_history,
                   prediction_history, priorities, priority_order, collision_history,
                   simulation_time, total_steps, pc, run, tick, audit>>

GetVehicle(id) ==
    Answer(Call("get_vehicle", id, 0), Ok(get_vehicle(vehicles, id)))

\* self.vehicles[vehicle_id] raises KeyError for an id that is not registered
GetVehicleAhead(id, same_lane_only) ==
    Answer(Call("get_vehicle_ahead", id, same_lane_only),
           IF id \in Ids(vehicles) THEN Ok(get_vehicle_ahead(vehicles, id, same_lane_only))
           ELSE [status |-> "KeyError", value |-> None])

GetVehicleBehind(id, same_lane_only) ==
    Answer(Call("get_vehicle_behind", id, same_lane_only),
           IF id \in Ids(vehicles) THEN Ok(get_vehicle_behind(vehicles, id, same_lane_only))
           ELSE [status |-> "KeyError", value |-> None])

IsLaneChangeSafe(id, target_lane) ==
    Answer(Call("is_lane_change_safe", id, target_lane),
           is_lane_change_safe(vehicles, id, target_lane))

CheckRearEndCollision(id1, id2) ==
    /\ id1 \in Ids(vehicles)
    /\ id2 \in Ids(vehicles)
    /\ id1 # id2
    /\ Answer(Call("check_rear_end_collision", id1, id2),
              Ok(check_rear_end_collision(Lookup(vehicles, id1), Lookup(vehicles, id2))))

PredictHdvAction(id) ==
    /\ pc = "idle"
    /\ Appended < MaxCalls
    /\ \E done \in {predict_hdv_action(vehicles, prediction_history, id, obstacles,
                                 num_lanes, current_time)} :
           /\ vehicles' = done.vehicles
           /\ prediction_history' = done.prediction_history
           /\ result' = [status |-> done.status, value |-> done.value]
    /\ audit' = [audit EXCEPT !.appends = @ + 1]
    /\ last_call' = Call("predict_hdv_action", id, 0)
    /\ UNCHANGED <<num_lanes, obstacles, current_time, state_history, priorities,
                   priority_order, collision_history, simulation_time, total_steps, pc,
                   run, tick>>

SampleHdvBehavior(id) ==
    /\ pc = "idle"
    /\ \E done \in {sample_hdv_behavior(vehicles, id, obstacles, num_lanes)} :
           /\ vehicles' = done.vehicles
           /\ IF done.status = "ok"
              THEN \E action \in done.samples : result' = Ok(<<action>>)
              ELSE result' = [status |-> done.status, value |-> None]
    /\ last_call' = Call("sample_hdv_behavior", id, 0)
    /\ UNCHANGED <<num_lanes, obstacles, current_time, state_history, prediction_history,
                   priorities, priority_order, collision_history, simulation_time,
                   total_steps, pc, run, tick, audit>>

PredictAllHdvs ==
    /\ pc = "idle"
    /\ Appended < MaxCalls
    /\ \E done \in {predict_all_hdvs(vehicles, prediction_history, obstacles, num_lanes,
                               current_time)} :
           /\ vehicles' = done.vehicles
           /\ prediction_history' = done.prediction_history
           /\ result' = Ok(done.returned)
    /\ audit' = [audit EXCEPT !.appends = @ + 1]
    /\ last_call' = Call("predict_all_hdvs", 0, 0)
    /\ UNCHANGED <<num_lanes, obstacles, current_time, state_history, priorities,
                   priority_order, collision_history, simulation_time, total_steps, pc,
                   run, tick>>

CalculateAllPriorities ==
    /\ pc = "idle"
    /\ \E done \in {calculate_all_priorities(vehicles, obstacles)} :
           /\ priorities' = done.priorities
           /\ priority_order' = done.priority_order
    /\ last_call' = Call("calculate_all_priorities", 0, 0)
    /\ result' = Ok(None)
    /\ UNCHANGED <<num_lanes, obstacles, vehicles, current_time, state_history,
                   prediction_history, collision_history, simulation_time, total_steps,
                   pc, run, tick, audit>>

CheckAllCollisions ==
    /\ pc = "idle"
    /\ Appended < MaxCalls
    /\ \E done \in {check_all_collisions(collision_history, vehicles, obstacles, current_time)} :
           /\ collision_history' = done.collision_history
           /\ result' = Ok(done.returned)
           /\ audit' = [audit EXCEPT !.returned_log = @ \o done.returned,
                                     !.appends = @ + 1]
    /\ last_call' = Call("check_all_collisions", 0, 0)
    /\ UNCHANGED <<num_lanes, obstacles, vehicles, current_time, state_history,
                   prediction_history, priorities, priority_order, simulation_time,
                   total_steps, pc, run, tick>>

QueryIds == VehicleIds \cup {UnknownId}

NextQuery ==
    \/ \E id \in QueryIds : GetVehicle(id)
    \/ \E id \in QueryIds : \E same_lane_only \in BOOLEAN : GetVehicleAhead(id, same_lane_only)
    \/ \E id \in QueryIds : \E same_lane_only \in BOOLEAN : GetVehicleBehind(id, same_lane_only)
    \/ \E id \in QueryIds : \E target_lane \in Lanes : IsLaneChangeSafe(id, target_lane)
    \/ \E id \in QueryIds : PredictHdvAction(id)
    \/ \E id \in QueryIds : SampleHdvBehavior(id)
    \/ PredictAllHdvs
    \/ CalculateAllPriorities
    \/ CheckAllCollisions

SpecQuery == InitQuery /\ [][NextQuery]_vars

----------------------------------------------------------------------------
(* check_rear_end_collision on pairs of vehicles of any lane, position and length *)

Lengths == {90, 120}        \* 4.5 m, 6 m
RearEndPositions == {0, 80, 130, 190}    \* 0 m, 4 m, 6.5 m, 9.5 m
RearEndVehicles(id) ==
    {Vehicle(id, "CAV", p, l, 2, 0, len, DefaultProbabilities) :
        p \in RearEndPositions, l \in 1..MaxLanes, len \in Lengths}

InitRearEnd ==
    /\ num_lanes = MaxLanes
    /\ obstacles = <<>>
    /\ \E v1 \in RearEndVehicles(1) : \E v2 \in RearEndVehicles(2) : Constructed(<<v1, v2>>)

NextRearEnd ==
    \/ \E id1 \in VehicleIds : \E id2 \in VehicleIds : CheckRearEndCollision(id1, id2)
    \/ CheckAllCollisions

SpecRearEnd == InitRearEnd /\ [][NextRearEnd]_vars

----------------------------------------------------------------------------
(* is_lane_change_safe on its own: vehicles 14 m, 15 m and 16 m apart *)

LaneChangePositions == {0, 280, 300, 320}    \* 0 m, 14 m, 15 m, 16 m
LaneChangeVehicles(id) ==
    {Vehicle(id, "CAV", p, l, 2, 0, DEFAULT_LENGTH, DefaultProbabilities) :
        p \in LaneChangePositions, l \in 1..MaxLanes}

InitLaneChange ==
    /\ num_lanes = MaxLanes
    /\ obstacles = <<>>
    /\ \E list \in ScenarioLists(MaxVehicleId, [id \in VehicleIds |-> LaneChangeVehicles(id)]) :
          Constructed(list)

NextLaneChange ==
    \E id \in QueryIds : \E target_lane \in Lanes : IsLaneChangeSafe(id, target_lane)

SpecLaneChange == InitLaneChange /\ [][NextLaneChange]_vars

----------------------------------------------------------------------------
(* check_all_collisions with obstacles at 5 m and 6 m, within reach of one vehicle *)

NearObstaclePositions == {100, 120}     \* 5 m, 6 m
ObstacleVehiclePositions == {0, 80, 110}    \* 0 m, 4 m, 5.5 m

RECURSIVE NearObstacleLists(_)
NearObstacleLists(n) ==
    IF n = 0 THEN {<<>>}
    ELSE LET shorter == NearObstacleLists(n - 1)
         IN  shorter \cup
             {Append(os, Obstacle(Len(os) + 1, p, l, "blockage")) :
                 os \in {x \in shorter : Len(x) = n - 1},
                 p \in NearObstaclePositions, l \in 1..MaxLanes}

ObstacleVehicles(id) ==
    {Vehicle(id, "CAV", p, l, 2, 0, DEFAULT_LENGTH, DefaultProbabilities) :
        p \in ObstacleVehiclePositions, l \in 1..MaxLanes}

InitObstacle ==
    /\ num_lanes = MaxLanes
    /\ obstacles \in NearObstacleLists(MaxObstacles + 1)
    /\ \E list \in ScenarioLists(MaxVehicleId, [id \in VehicleIds |-> ObstacleVehicles(id)]) :
          Constructed(list)

NextObstacle == CheckAllCollisions

SpecObstacle == InitObstacle /\ [][NextObstacle]_vars

----------------------------------------------------------------------------
(* The predictor on an engine constructed with an HDV of varied base distribution *)

PredictProbs == {DefaultProbabilities, [K |-> 0, L |-> 5, R |-> 5], [K |-> 0, L |-> 0, R |-> 10]}
PredictObstaclePositions == {150, 1000}     \* 7.5 m, 50 m
HdvVelocities == {7, 8}                     \* m/s; the vehicle ahead drives 2 m/s
AheadPositions == {80, 600}                 \* 4 m, 30 m

RECURSIVE PredictObstacleLists(_, _)
PredictObstacleLists(n, lanes) ==
    IF n = 0 THEN {<<>>}
    ELSE LET shorter == PredictObstacleLists(n - 1, lanes)
         IN  shorter \cup
             {Append(os, Obstacle(Len(os) + 1, p, l, "blockage")) :
                 os \in {x \in shorter : Len(x) = n - 1},
                 p \in PredictObstaclePositions, l \in lanes}

\* vehicle 1 is the HDV asked about, at 0 m; vehicle 2, if any, is ahead of it
PredictVehicles(id) ==
    IF id = 1
    THEN {Vehicle(id, "HDV", 0, l, v, 0, DEFAULT_LENGTH, b) :
             l \in Lanes, v \in HdvVelocities, b \in PredictProbs}
    ELSE {Vehicle(id, t, p, l, 2, 0, DEFAULT_LENGTH, DefaultProbabilities) :
             t \in {"CAV", "HDV"}, p \in AheadPositions, l \in Lanes}

\* run_single_step as one call: the four calls in their order, the counters, the result
RunSingleStep ==
    /\ pc = "idle"
    /\ Longest(state_history) < MaxSnapshots
    /\ \E predicted \in {predict_all_hdvs(vehicles, prediction_history, obstacles, num_lanes,
                                           current_time)} :
       \E scored \in {calculate_all_priorities(predicted.vehicles, obstacles)} :
       \E checked \in {check_all_collisions(collision_history, predicted.vehicles, obstacles,
                                            current_time)} :
       \E stepped \in {step_simulation(predicted.vehicles, state_history, current_time,
                                       TIME_STEP)} :
           /\ vehicles' = stepped.vehicles
           /\ state_history' = stepped.history
           /\ current_time' = stepped.current_time
           /\ prediction_history' = predicted.prediction_history
           /\ priorities' = scored.priorities
           /\ priority_order' = scored.priority_order
           /\ collision_history' = checked.collision_history
           /\ audit' = [audit EXCEPT
                           !.returned_log = @ \o checked.returned,
                           !.steps_since_add =
                               [id \in VehicleIds |->
                                   IF id \in Ids(vehicles) THEN @[id] + 1 ELSE @[id]]]
           /\ result' = Ok([time |-> simulation_time + TIME_STEP,
                            hdv_predictions |-> predicted.returned,
                            priorities |-> get_priority_order(scored.priority_order),
                            collisions |-> checked.returned])
    /\ simulation_time' = simulation_time + TIME_STEP
    /\ total_steps' = total_steps + 1
    /\ last_call' = Call("run_single_step", 0, 0)
    /\ UNCHANGED <<num_lanes, obstacles, pc, run, tick>>

InitPredict ==
    /\ num_lanes \in 1..MaxLanes
    /\ obstacles \in PredictObstacleLists(MaxObstacles + 1, 1..num_lanes)
    /\ \E v1 \in PredictVehicles(1) :
          \/ Constructed(<<v1>>)
          \/ \E v2 \in PredictVehicles(MaxVehicleId) : Constructed(<<v1, v2>>)

NextPredict ==
    \/ \E id \in QueryIds : PredictHdvAction(id)
    \/ \E id \in QueryIds : SampleHdvBehavior(id)
    \/ PredictAllHdvs
    \/ RunSingleStep

SpecPredict == InitPredict /\ [][NextPredict]_vars

----------------------------------------------------------------------------
(* The priority scorer on an engine constructed with a CAV at 0 m and obstacles at the
   distances where the score meets a threshold *)

\* 0.5 m, 1 m, 4 m, 9 m, 19 m: 100 / (distance + 1) = 66.7, 50, 20, 10, 5
PriorityObstaclePositions == {10, 20, 80, 180, 380}
CloseAheadPositions == {20, 400}        \* 1 m: 10 / (1 + 1) = 5; 20 m: no term

RECURSIVE PriorityObstacleLists(_, _)
PriorityObstacleLists(n, lanes) ==
    IF n = 0 THEN {<<>>}
    ELSE LET shorter == PriorityObstacleLists(n - 1, lanes)
         IN  shorter \cup
             {Append(os, Obstacle(Len(os) + 1, p, l, t)) :
                 os \in {x \in shorter : Len(x) = n - 1},
                 p \in PriorityObstaclePositions, l \in lanes, t \in ObstacleTypes}

\* vehicle 1 is the CAV scored, at 0 m; vehicle 2, if any, is ahead of it
PriorityVehicles(id) ==
    IF id = 1
    THEN {Vehicle(id, "CAV", 0, l, 2, 0, DEFAULT_LENGTH, DefaultProbabilities) : l \in Lanes}
    ELSE {Vehicle(id, t, p, l, 2, 0, DEFAULT_LENGTH, DefaultProbabilities) :
             t \in {"CAV", "HDV"}, p \in CloseAheadPositions, l \in Lanes}

InitPriority ==
    /\ num_lanes = MaxLanes
    /\ obstacles \in PriorityObstacleLists(MaxObstacles + 1, 1..num_lanes)
    /\ \E v1 \in PriorityVehicles(1) :
          \/ Constructed(<<v1>>)
          \/ \E v2 \in PriorityVehicles(MaxVehicleId) : Constructed(<<v1, v2>>)

NextPriority == CalculateAllPriorities

SpecPriority == InitPriority /\ [][NextPriority]_vars

----------------------------------------------------------------------------
(* get_vehicle_ahead and get_vehicle_behind on a registry of three vehicles *)

NeighbourIds == 1..(MaxVehicleId + 1)
NeighbourPositions == {0, 80, 200}      \* 0 m, 4 m, 10 m
NeighbourVehicles(id) ==
    {Vehicle(id, "CAV", p, l, 2, 0, DEFAULT_LENGTH, DefaultProbabilities) :
        p \in NeighbourPositions, l \in 1..MaxLanes}

\* the engine constructed with one vehicle per id of NeighbourIds, in the order of the ids
InitNeighbour ==
    /\ num_lanes = MaxLanes
    /\ obstacles = <<>>
    /\ \E list \in [NeighbourIds -> UNION {NeighbourVehicles(id) : id \in NeighbourIds}] :
          /\ \A id \in NeighbourIds : list[id].id = id
          /\ \E done \in {add_vehicles(<<>>, [id \in NeighbourIds |-> <<>>], list, 0)} :
                /\ vehicles = done.vehicles
                /\ state_history = done.state_history
    /\ audit = [steps_since_add |-> [id \in NeighbourIds |-> 0], returned_log |-> <<>>,
                registrations |-> [id \in NeighbourIds |-> 1], appends |-> 0]
    /\ current_time = 0
    /\ prediction_history = [id \in NeighbourIds |-> <<>>]
    /\ priorities = <<>>
    /\ priority_order = <<>>
    /\ collision_history = <<>>
    /\ simulation_time = 0
    /\ total_steps = 0
    /\ pc = "idle"
    /\ run = NoRun
    /\ tick = NoTick
    /\ last_call = NoCall
    /\ result = Ok(None)

NextNeighbour ==
    \/ \E id \in NeighbourIds : \E same_lane_only \in BOOLEAN :
          GetVehicleAhead(id, same_lane_only)
    \/ \E id \in NeighbourIds : \E same_lane_only \in BOOLEAN :
          GetVehicleBehind(id, same_lane_only)

SpecNeighbour == InitNeighbour /\ [][NextNeighbour]_vars

----------------------------------------------------------------------------
(* Claims *)

NoPredictions == [id \in VehicleIds |-> <<>>]

\* C1: when a tick of run_single_step has made its four calls, the predictions, the
\* priorities and the collision events it holds are those of the state the tick started
\* from, and the vehicles are that state integrated exactly once, as the last call.
C1_TickReadsOneSnapshot ==
    pc = "return" =>
        LET start == tick.start
            stepped == step_simulation(start.vehicles, state_history, start.current_time,
                                       TIME_STEP)
            scored == calculate_all_priorities(start.vehicles, obstacles)
        IN  /\ tick.hdv_predictions =
                  predict_all_hdvs(start.vehicles, NoPredictions, obstacles, num_lanes,
                                   start.current_time).returned
            /\ priorities = scored.priorities
            /\ priority_order = scored.priority_order
            /\ tick.collisions =
                  CurrentCollisions(start.vehicles, obstacles, start.current_time)
            /\ vehicles = stepped.vehicles
            /\ current_time = stepped.current_time
            /\ tick.phases = <<"predict", "priority", "collision", "integrate">>

C1_Witness ==
    /\ pc = "return"
    /\ total_steps = 1
    /\ tick.hdv_predictions # <<>>
    /\ priorities # <<>>
    /\ tick.collisions # <<>>
    /\ vehicles # tick.start.vehicles

\* C2: the timestamps of consecutive snapshots of a vehicle registered once are strictly
\* increasing.
C2_TimestampsStrictlyIncreasing ==
    \A id \in VehicleIds :
        audit.registrations[id] = 1 =>
            \A i \in 1..(Len(state_history[id]) - 1) :
                state_history[id][i].timestamp < state_history[id][i + 1].timestamp

\* C3: a registered vehicle's history holds one snapshot per step_simulation executed
\* since it was added, plus the initial one.
C3_HistoryLength ==
    \A id \in Ids(vehicles) :
        Len(state_history[id]) = audit.steps_since_add[id] + 1

\* C4: after step_simulation every registered vehicle's velocity is >= 0, and so is the
\* velocity in the snapshot the step appended for it.
C4_VelocityNonNegative ==
    last_call.op = "step_simulation" =>
        \A i \in 1..Len(vehicles) :
            /\ vehicles[i].velocity >= 0
            /\ state_history[vehicles[i].id][Len(state_history[vehicles[i].id])].velocity >= 0

C4_Witness ==
    /\ last_call.op = "step_simulation"
    /\ \E i \in 1..Len(vehicles) :
          /\ vehicles[i].velocity = 0
          /\ vehicles[i].acceleration < 0
          /\ Len(state_history[vehicles[i].id]) = 2
          /\ state_history[vehicles[i].id][1].velocity > 0

\* C5: add_vehicle with an id already registered fails with DuplicateId and leaves the
\* registry and the state history as they were.
C5_DuplicateIdRejected ==
    [][(last_call'.op = "add_vehicle" /\ last_call'.id \in Ids(vehicles)) =>
          /\ result'.status = "DuplicateId"
          /\ vehicles' = vehicles
          /\ state_history' = state_history]_vars

IdQueries == {"get_vehicle", "get_vehicle_ahead", "get_vehicle_behind",
              "predict_hdv_action", "sample_hdv_behavior", "is_lane_change_safe"}

\* C6: a query given an id that is not registered fails instead of returning a result.
C6_UnknownIdFails ==
    (last_call.op \in IdQueries /\ last_call.id \notin Ids(vehicles)) =>
        result.status # "ok"

ReadOnlyCalls == {"predict_all_hdvs", "sample_hdv_behavior", "calculate_all_priorities",
                  "check_all_collisions", "is_lane_change_safe"}

\* C7: predict_all_hdvs, sample_hdv_behavior, calculate_all_priorities,
\* check_all_collisions and is_lane_change_safe leave the vehicles, the clock and the
\* state history unchanged.
C7_ReadersLeaveVehicles ==
    [][last_call'.op \in ReadOnlyCalls =>
          /\ vehicles' = vehicles
          /\ current_time' = current_time
          /\ state_history' = state_history]_vars

C7_Witness ==
    /\ last_call.op = "predict_all_hdvs"
    /\ \E i \in 1..Len(vehicles) :
          /\ prediction_history[vehicles[i].id] # <<>>
          /\ prediction_history[vehicles[i].id][1].all_probabilities.L = 0
          /\ vehicles[i].action_probabilities.L > 0

\* C8: the collision log is the concatenation, in call order, of the lists that
\* check_all_collisions returned, each list being the events of the state it was called
\* in, and get_collision_count is the sum of their lengths.
C8_CollisionLogIsConcatenation ==
    /\ collision_history = audit.returned_log
    /\ get_collision_count(collision_history) = Len(audit.returned_log)
    /\ last_call.op = "check_all_collisions" =>
          tick.collisions = CurrentCollisions(vehicles, obstacles, current_time)

C8_Witness ==
    /\ last_call.op = "check_all_collisions"
    /\ tick.collisions # <<>>
    /\ Len(collision_history) > Len(tick.collisions)

Ceil(a, b) == (a + b - 1) \div b

\* C9: run_simulation(duration) executes ceil(duration / time_step) ticks.
C9_TicksAreCeiling ==
    (last_call.op = "run_complete" /\ run.kind = "simulation") =>
        total_steps - run.start_steps = Ceil(run.duration, TIME_STEP_CS)

\* C10: check_rear_end_collision(v1, v2) and check_rear_end_collision(v2, v1) return the
\* same collision boolean and the same gap.
C10_RearEndSymmetric ==
    last_call.op = "check_rear_end_collision" =>
        result.value = check_rear_end_collision(Lookup(vehicles, last_call.arg),
                                                Lookup(vehicles, last_call.id))

\* the gap between two vehicles of one lane, the one at the greater position being ahead
\* (either of them when the positions are equal)
RearGaps(v1, v2) ==
    {pair[1].position - pair[2].position - pair[1].length :
        pair \in {q \in {<<v1, v2>>, <<v2, v1>>} : q[1].position >= q[2].position}}

RearEndEvents(log, id1, id2) ==
    {k \in 1..Len(log) : /\ log[k].collision_type = "REAR_END"
                         /\ log[k].vehicle1_id = id1
                         /\ log[k].vehicle2_id = id2}

\* C11: two vehicles of one lane give a rear-end event iff their gap is < 5.0 m, CRITICAL
\* iff the gap is < 2.0 m and WARNING otherwise; vehicles of different lanes give none;
\* lengths 4.5 m in lane 1 at 0 m and 4 m give the gap -0.5 m, CRITICAL.
C11_RearEndGap ==
    /\ last_call.op = "check_rear_end_collision" =>
          LET v1 == Lookup(vehicles, last_call.id)
              v2 == Lookup(vehicles, last_call.arg)
          IN  result.value.collision <=>
                  (v1.lane = v2.lane /\ \E g \in RearGaps(v1, v2) : g < 5 * METRE)
    /\ last_call.op = "check_all_collisions" =>
          \A i, j \in 1..Len(vehicles) :
              i < j =>
                  LET events == RearEndEvents(result.value, vehicles[i].id, vehicles[j].id)
                      gaps == RearGaps(vehicles[i], vehicles[j])
                  IN  /\ (events # {}) <=>
                            /\ vehicles[i].lane = vehicles[j].lane
                            /\ \E g \in gaps : g < 5 * METRE
                      /\ \A k \in events :
                            /\ result.value[k].distance \in gaps
                            /\ result.value[k].severity =
                                  IF result.value[k].distance < 2 * METRE
                                  THEN "CRITICAL" ELSE "WARNING"
                      /\ Cardinality(events) <= 1

\* lengths 4.5 m in lane 1 at 0 m and 4 m: one event, gap -0.5 m, CRITICAL
C11_Witness ==
    /\ last_call.op = "check_all_collisions"
    /\ Len(vehicles) = 2
    /\ \A i \in 1..2 : vehicles[i].lane = 1 /\ vehicles[i].length = DEFAULT_LENGTH
    /\ vehicles[1].position = 0
    /\ vehicles[2].position = 4 * METRE
    /\ Len(result.value) = 1
    /\ result.value[1].collision_type = "REAR_END"
    /\ 2 * result.value[1].distance = -METRE
    /\ result.value[1].severity = "CRITICAL"

\* the vehicles other than the requester in the target lane, less than 15 m from it
TooClose(vs, vehicle_id, target_lane) ==
    {i \in 1..Len(vs) :
        /\ vs[i].id # vehicle_id
        /\ vs[i].lane = target_lane
        /\ Abs(vs[i].position - Lookup(vs, vehicle_id).position) < 15 * METRE}

\* C12: is_lane_change_safe(id, lane) of a registered vehicle is false iff another vehicle
\* of the target lane is less than 15 m from it, ahead or behind, and true otherwise.
C12_LaneChangeSafe ==
    (last_call.op = "is_lane_change_safe" /\ last_call.id \in Ids(vehicles)) =>
        /\ result.status = "ok"
        /\ result.value = (TooClose(vehicles, last_call.id, last_call.arg) = {})

\* a vehicle of the target lane at exactly 15 m, behind the requester: the change is safe
C12_Witness ==
    /\ last_call.op = "is_lane_change_safe"
    /\ last_call.id \in Ids(vehicles)
    /\ \E i \in 1..Len(vehicles) :
          /\ vehicles[i].id # last_call.id
          /\ vehicles[i].lane = last_call.arg
          /\ Lookup(vehicles, last_call.id).position - vehicles[i].position = 15 * METRE
    /\ result.value = TRUE

\* the events of a log for one vehicle and one obstacle
ObstacleEventsOf(log, vehicle_id, obstacle_id) ==
    {k \in 1..Len(log) : /\ log[k].collision_type = "OBSTACLE_COLLISION"
                         /\ log[k].vehicle1_id = vehicle_id
                         /\ log[k].obstacle_id = obstacle_id}

\* C13: for every vehicle and every obstacle of its lane with 0 < distance < 5.0 m, the
\* events check_all_collisions returns hold an obstacle event for that vehicle and that
\* obstacle, CRITICAL iff the distance is < 2.0 m and WARNING otherwise.
C13_EveryObstacleReported ==
    last_call.op = "check_all_collisions" =>
        \A i \in 1..Len(vehicles) : \A o \in 1..Len(obstacles) :
            LET distance == obstacles[o].position - vehicles[i].position
            IN  (/\ obstacles[o].lane = vehicles[i].lane
                 /\ 0 < distance
                 /\ distance < 5 * METRE)
                => \E k \in ObstacleEventsOf(result.value, vehicles[i].id, obstacles[o].id) :
                       result.value[k].severity =
                           IF distance < 2 * METRE THEN "CRITICAL" ELSE "WARNING"

\* three non-negative probabilities that sum to 1
IsDistribution(probs) ==
    /\ probs.K >= 0
    /\ probs.L >= 0
    /\ probs.R >= 0
    /\ probs.den > 0
    /\ probs.K + probs.L + probs.R = probs.den

\* C14: the distribution of every prediction made for an HDV (its base distribution being
\* non-negative) has three non-negative probabilities that sum to 1.
C14_DistributionSumsToOne ==
    \A id \in VehicleIds :
        \A k \in 1..Len(prediction_history[id]) :
            IsDistribution(prediction_history[id][k].all_probabilities)

\* a prediction whose distribution was adjusted for the vehicle ahead and an obstacle
C14_Witness ==
    /\ Len(vehicles) = 2
    /\ vehicles[2].lane = vehicles[1].lane
    /\ vehicles[2].position = 4 * METRE
    /\ \E o \in 1..Len(obstacles) :
          obstacles[o].lane = vehicles[1].lane /\ obstacles[o].position < 50 * METRE
    /\ vehicles[1].action_probabilities = DefaultProbabilities
    /\ Len(prediction_history[1]) = 1
    /\ prediction_history[1][1].all_probabilities.den > 10

\* the adjusted weights of vehicle v total 0: every factor is positive, so the base
\* KeepLane weight is 0 and each lane change is 0 in the base or forced to 0 by its lane
TotalIsZero(v) ==
    /\ v.action_probabilities.K = 0
    /\ v.lane = 1 \/ v.action_probabilities.L = 0
    /\ v.lane = num_lanes \/ v.action_probabilities.R = 0

\* C15: when the adjusted weights total 0 the distribution is exactly {KeepLane: 1,
\* ChangeLeft: 0, ChangeRight: 0}; predict_hdv_action and sample_hdv_behavior return
\* normally, predicting and sampling KeepLane.
C15_DegenerateFallback ==
    \A i \in 1..Len(vehicles) :
        (/\ vehicles[i].type = "HDV"
         /\ TotalIsZero(vehicles[i])
         /\ last_call.id = vehicles[i].id)
        => /\ last_call.op = "predict_hdv_action" =>
                 /\ result.status = "ok"
                 /\ result.value.all_probabilities = [K |-> 1, L |-> 0, R |-> 0, den |-> 1]
                 /\ result.value.predicted_action = "K"
                 /\ result.value.confidence = <<1, 1>>
           /\ last_call.op = "sample_hdv_behavior" =>
                 /\ result.status = "ok"
                 /\ result.value = <<"K">>

\* base KeepLane 0 on a one-lane road, sampled
C15_Witness ==
    /\ num_lanes = 1
    /\ vehicles[1].type = "HDV"
    /\ vehicles[1].action_probabilities = [K |-> 0, L |-> 5, R |-> 5]
    /\ last_call = Call("sample_hdv_behavior", 1, 0)
    /\ result = Ok(<<"K">>)

\* C16: for an HDV in lane 1 every returned distribution has ChangeLeft probability 0 and
\* ChangeLeft is never predicted; for an HDV in lane num_lanes the same holds of ChangeRight.
C16_BoundaryLanes ==
    \A i \in 1..Len(vehicles) :
        \A k \in 1..Len(prediction_history[vehicles[i].id]) :
            LET prediction == prediction_history[vehicles[i].id][k]
            IN  /\ vehicles[i].lane = 1 =>
                      /\ prediction.all_probabilities.L = 0
                      /\ prediction.predicted_action # "L"
                /\ vehicles[i].lane = num_lanes =>
                      /\ prediction.all_probabilities.R = 0
                      /\ prediction.predicted_action # "R"

\* an HDV in lane 1 of two, a vehicle ahead and two obstacles within 50 m in its lane:
\* ChangeRight is predicted, ChangeLeft has probability 0
C16_Witness ==
    /\ num_lanes = 2
    /\ Len(vehicles) = 2
    /\ vehicles[1].lane = 1
    /\ vehicles[2].lane = 1
    /\ Len(obstacles) = 2
    /\ \A o \in 1..2 : obstacles[o].lane = 1 /\ obstacles[o].position < 50 * METRE
    /\ Len(prediction_history[1]) = 1
    /\ prediction_history[1][1].all_probabilities.L = 0
    /\ prediction_history[1][1].predicted_action = "R"

\* the type of a registered vehicle, "none" for an id that is not registered
TypeOf(vs, id) == IF id \in Ids(vs) THEN Lookup(vs, id).type ELSE "none"

\* C17: predict_hdv_action and sample_hdv_behavior on a CAV fail with the not-an-HDV error
\* and leave the prediction history unchanged; each tick of run_single_step adds one
\* prediction for every HDV and none for a CAV, so that after N ticks (and no other
\* predicting call) the history holds N predictions per HDV and none per CAV.
C17_PredictionsOnlyForHdvs ==
    /\ [](audit.appends = 0 =>
            \A id \in VehicleIds :
                Len(prediction_history[id]) =
                    IF TypeOf(vehicles, id) = "HDV" THEN total_steps ELSE 0)
    /\ [][((/\ last_call'.op \in {"predict_hdv_action", "sample_hdv_behavior"}
             /\ TypeOf(vehicles, last_call'.id) = "CAV")
            => (/\ result'.status = "ValueError"
                /\ prediction_history' = prediction_history))
          /\ (last_call'.op = "run_single_step" =>
                 \A id \in VehicleIds :
                     Len(prediction_history'[id]) =
                         Len(prediction_history[id])
                           + (IF TypeOf(vehicles, id) = "HDV" THEN 1 ELSE 0))]_vars

\* two ticks, then predict_hdv_action on the CAV: the HDV has two predictions, the CAV none
C17_Witness ==
    /\ total_steps = 2
    /\ Len(vehicles) = 2
    /\ vehicles[2].type = "CAV"
    /\ last_call = Call("predict_hdv_action", vehicles[2].id, 0)
    /\ result.status = "ValueError"
    /\ Len(prediction_history[vehicles[1].id]) = 2
    /\ prediction_history[vehicles[2].id] = <<>>

\* the ids of the registered vehicles of one type
IdsOfType(vs, type) == {vs[i].id : i \in {j \in 1..Len(vs) : vs[j].type = type}}

\* C18: after calculate_all_priorities the priority order holds every registered CAV id
\* exactly once and no HDV id, with non-increasing scores and equal scores in the
\* vehicles' iteration order; calculating again on the same vehicles and obstacles gives
\* the same order.
C18_PriorityOrder ==
    last_call.op = "calculate_all_priorities" =>
        LET order == get_priority_order(priority_order)
            score(id) == PriorityOf(priorities, id).urgency_score
        IN  /\ Len(order) = Cardinality(IdsOfType(vehicles, "CAV"))
            /\ \A id \in IdsOfType(vehicles, "CAV") :
                  Cardinality({k \in 1..Len(order) : order[k] = id}) = 1
            /\ \A k \in 1..Len(order) : order[k] \notin IdsOfType(vehicles, "HDV")
            /\ \A k, m \in 1..Len(order) :
                  k < m =>
                      /\ ~FracLess(score(order[k]), score(order[m]))
                      /\ score(order[k]) = score(order[m]) =>
                            IndexOf(vehicles, order[k]) < IndexOf(vehicles, order[m])
            /\ order = get_priority_order(
                           calculate_all_priorities(vehicles, obstacles).priority_order)

\* two CAVs of equal positive score, registered 2 then 1: the order is <<2, 1>>
C18_Witness ==
    /\ last_call.op = "calculate_all_priorities"
    /\ Len(vehicles) = 2
    /\ vehicles[1].id = 2
    /\ priority_order = <<2, 1>>
    /\ PriorityOf(priorities, 1).urgency_score = PriorityOf(priorities, 2).urgency_score
    /\ FracGt(PriorityOf(priorities, 1).urgency_score, 0)

\* C19: in every CAVPriority of calculate_all_priorities the level is CRITICAL iff
\* score >= 50, HIGH iff 20 <= score < 50, MEDIUM iff 10 <= score < 20, LOW iff
\* 5 <= score < 10, NONE iff score < 5, and requires_lane_change iff score > 5.
C19_UrgencyLevels ==
    last_call.op = "calculate_all_priorities" =>
        \A k \in 1..Len(priorities) :
            LET score == priorities[k].urgency_score
                level == priorities[k].urgency_level
                atLeast(n) == score[1] >= n * score[2]
            IN  /\ level = "CRITICAL" <=> atLeast(50)
                /\ level = "HIGH" <=> (atLeast(20) /\ ~atLeast(50))
                /\ level = "MEDIUM" <=> (atLeast(10) /\ ~atLeast(20))
                /\ level = "LOW" <=> (atLeast(5) /\ ~atLeast(10))
                /\ level = "NONE" <=> ~atLeast(5)
                /\ priorities[k].requires_lane_change <=> score[1] > 5 * score[2]
                /\ priorities[k].requires_lane_change => level # "NONE"

\* a score of exactly 5: LOW, and no lane change required
C19_Witness ==
    /\ last_call.op = "calculate_all_priorities"
    /\ \E k \in 1..Len(priorities) :
          /\ priorities[k].urgency_score = <<5, 1>>
          /\ priorities[k].urgency_level = "LOW"
          /\ ~priorities[k].requires_lane_change

\* the vehicles other than vehicle_id at a strictly greater (sign = 1) or strictly lesser
\* (sign = -1) position, of its lane only when same_lane_only
Candidates(vs, vehicle_id, same_lane_only, sign) ==
    {i \in 1..Len(vs) :
        /\ vs[i].id # vehicle_id
        /\ same_lane_only => vs[i].lane = Lookup(vs, vehicle_id).lane
        /\ sign * (vs[i].position - Lookup(vs, vehicle_id).position) > 0}

\* answer is the candidate at the smallest distance with that distance, or (None, inf)
IsNearest(vs, vehicle_id, candidates, sign, answer) ==
    IF candidates = {}
    THEN answer = [vehicle |-> None, distance |-> INF]
    ELSE \E i \in candidates :
            /\ answer.vehicle = vs[i]
            /\ answer.distance = sign * (vs[i].position - Lookup(vs, vehicle_id).position)
            /\ \A j \in candidates :
                  answer.distance <= sign * (vs[j].position - Lookup(vs, vehicle_id).position)

\* C20: get_vehicle_ahead returns the other vehicle at the smallest positive position
\* difference (of the same lane when same_lane_only) with that difference, (None, inf)
\* when there is none, never a vehicle at the same position; get_vehicle_behind mirrors it.
C20_NearestNeighbour ==
    /\ (last_call.op = "get_vehicle_ahead" /\ last_call.id \in Ids(vehicles)) =>
          /\ result.status = "ok"
          /\ IsNearest(vehicles, last_call.id,
                       Candidates(vehicles, last_call.id, last_call.arg, 1), 1, result.value)
    /\ (last_call.op = "get_vehicle_behind" /\ last_call.id \in Ids(vehicles)) =>
          /\ result.status = "ok"
          /\ IsNearest(vehicles, last_call.id,
                       Candidates(vehicles, last_call.id, last_call.arg, -1), -1, result.value)

\* vehicle 1 asks; vehicle 2 is at its position, vehicle 3 ahead in the other lane: with
\* same_lane_only false the answer is vehicle 3
C20_Witness ==
    /\ last_call = Call("get_vehicle_ahead", 1, FALSE)
    /\ Lookup(vehicles, 2).position = Lookup(vehicles, 1).position
    /\ Lookup(vehicles, 2).lane = Lookup(vehicles, 1).lane
    /\ Lookup(vehicles, 3).lane # Lookup(vehicles, 1).lane
    /\ result.value.vehicle = Lookup(vehicles, 3)
    /\ result.value.distance = 4 * METRE

\* the lane-drop obstacles of the vehicle's lane ahead of it within 200 m
LaneDropsAhead(v, obs) ==
    {o \in 1..Len(obs) : /\ obs[o].type = "lane_drop"
                         /\ obs[o].lane = v.lane
                         /\ obs[o].position - v.position > 0
                         /\ obs[o].position - v.position < 200 * METRE}

\* the distance of the nearest obstacle of a non-empty set
NearestDistance(v, obs, set) ==
    CHOOSE d \in {obs[o].position - v.position : o \in set} :
        \A o \in set : d <= obs[o].position - v.position

\* the score with one lane-drop term, that of the nearest lane-drop obstacle
ScoreWithNearestLaneDrop(vs, v, obs) ==
    LET nearest == MinObstacleDistance(v, obs)
        drops == LaneDropsAhead(v, obs)
        ahead == get_vehicle_ahead(vs, v.id, TRUE)
        obstacle_term == IF nearest < 100 * METRE THEN Term(100, nearest) ELSE <<0, 1>>
        lane_drop_term == IF drops # {} THEN Term(50, NearestDistance(v, obs, drops))
                          ELSE <<0, 1>>
        proximity_term == IF ahead.vehicle # None /\ ahead.distance < 20 * METRE
                          THEN Term(10, ahead.distance) ELSE <<0, 1>>
    IN  FracAdd(FracAdd(obstacle_term, lane_drop_term), proximity_term)

\* the places of the "Lane ending" fragments in a CAVPriority's reason, which is
\* "No urgency" exactly when no term was added, the score then being 0
LaneEndingFragments(priority) ==
    IF priority.urgency_score = <<0, 1>> THEN {}
    ELSE {j \in 1..Len(priority.reason) : priority.reason[j].fragment = "Lane ending"}

\* C21: the lane-drop term of a CAV's score is that of the nearest lane-drop obstacle of
\* its lane ahead within 200 m only: one term 50 / (distance + 1) and one "Lane ending"
\* fragment, however many such obstacles there are.
C21_OneLaneDropTerm ==
    last_call.op = "calculate_all_priorities" =>
        \A k \in 1..Len(priorities) :
            LET v == Lookup(vehicles, priorities[k].vehicle_id)
                drops == LaneDropsAhead(v, obstacles)
                fragments == LaneEndingFragments(priorities[k])
            IN  /\ Cardinality(fragments) = IF drops = {} THEN 0 ELSE 1
                /\ \A j \in fragments :
                      priorities[k].reason[j].distance = NearestDistance(v, obstacles, drops)
                /\ priorities[k].urgency_score =
                      ScoreWithNearestLaneDrop(vehicles, v, obstacles)

\* the weights after factors 1, 3 and 4, with the speed-difference factor taken iff applied
WeightsWithSpeedFactor(vs, vehicle, obs, lanes, applied) ==
    LET base == vehicle.action_probabilities
        ahead == get_vehicle_ahead(vs, vehicle.id, TRUE)
        close == ahead.vehicle # None /\ ahead.distance < AHEAD_RANGE
        f1 == IF close THEN [K |-> 7, L |-> 13, R |-> 13] ELSE [K |-> 10, L |-> 10, R |-> 10]
        f2 == IF applied THEN [K |-> 6, L |-> 15, R |-> 15] ELSE [K |-> 10, L |-> 10, R |-> 10]
        near == Cardinality({k \in 1..Len(obs) :
                                /\ obs[k].lane = vehicle.lane
                                /\ 0 < obs[k].position - vehicle.position
                                /\ obs[k].position - vehicle.position < OBSTACLE_RANGE})
        left == IF vehicle.lane = 1 THEN 0 ELSE base.L * f1.L * f2.L
        right == IF vehicle.lane = lanes THEN 0 ELSE base.R * f1.R * f2.R
    IN  [K |-> base.K * f1.K * f2.K * Pow(2, near),
         L |-> left * (IF vehicle.lane > 1 THEN Pow(20, near) ELSE Pow(10, near)),
         R |-> right * (IF vehicle.lane < lanes THEN Pow(20, near) ELSE Pow(10, near))]

\* two distributions give every action the same probability
SameDistribution(p, q) ==
    \A i \in 1..3 : p[Actions[i]] * q.den = q[Actions[i]] * p.den

\* the vehicle ahead of the HDV in its lane is within 30 m and more than 5 m/s slower
CloseAndSlower(vs, vehicle) ==
    LET ahead == get_vehicle_ahead(vs, vehicle.id, TRUE)
    IN  /\ ahead.vehicle # None
        /\ ahead.distance < AHEAD_RANGE
        /\ vehicle.velocity > ahead.vehicle.velocity + SPEED_MARGIN

\* C22: the distribution predict_hdv_action returns for an HDV is the one whose
\* speed-difference adjustment (KeepLane x0.6, ChangeLeft and ChangeRight x1.5) is applied
\* exactly when the nearest vehicle ahead in the lane is within 30 m and more than 5 m/s
\* slower: a vehicle ahead at 30 m or more brings no speed-difference adjustment.
C22_SpeedFactorOnlyWithinRange ==
    (last_call.op = "predict_hdv_action" /\ result.status = "ok") =>
        LET vehicle == Lookup(vehicles, last_call.id)
        IN  SameDistribution(result.value.all_probabilities,
                             Normalize(WeightsWithSpeedFactor(
                                 vehicles, vehicle, obstacles, num_lanes,
                                 CloseAndSlower(vehicles, vehicle))))

\* C23: the positions recorded in the state history of a vehicle registered once, with a
\* velocity >= 0, never decrease from one entry to the next, whatever its acceleration.
C23_PositionsNeverDecrease ==
    \A id \in VehicleIds :
        audit.registrations[id] = 1 =>
            \A k \in 1..(Len(state_history[id]) - 1) :
                state_history[id][k].position <= state_history[id][k + 1].position

====
